---- MODULE Spec2Model ----
(***************************************************************************)
(* State machine of the FloatingSearch component                          *)
(* (src/src/components/FloatingSearch.tsx).                               *)
(*                                                                         *)
(* Strings are sequences of one-character strings, so that trim(),        *)
(* toUpperCase() and the template literal of handleSubmit are computed    *)
(* character by character.                                                 *)
(***************************************************************************)
EXTENDS Naturals, Sequences, FiniteSets

\* ------------------------------------------------------------------ bounds

\* Longest text the user types into the input.
MaxQueryLen == 2

\* Characters the user can type: a letter and a blank.
Alphabet == {"a", " "}

\* Failures the injected operation can reject with.
Errors == {"E1", "E2"}

\* ------------------------------------------------------------- JS strings

Strings == UNION {[1..n -> Alphabet] : n \in 0..MaxQueryLen}

Str_all == <<"a", "l", "l">>
Str_domain == <<"d", "o", "m", "a", "i", "n">>
Str_page == <<"p", "a", "g", "e">>

\* The keys of scopeIcons, the type of searchScope.
Scopes == {Str_all, Str_domain, Str_page}

LowerLetters == <<"a", "d", "e", "g", "i", "l", "m", "n", "o", "p">>
UpperLetters == <<"A", "D", "E", "G", "I", "L", "M", "N", "O", "P">>

\* String.prototype.toUpperCase on one character.
UpperChar(c) ==
  IF \E i \in DOMAIN LowerLetters : LowerLetters[i] = c
    THEN UpperLetters[CHOOSE i \in DOMAIN LowerLetters : LowerLetters[i] = c]
    ELSE c

\* String.prototype.toUpperCase.
toUpperCase(s) == [i \in DOMAIN s |-> UpperChar(s[i])]

IsWhiteSpace(c) == c \in {" ", "\t", "\n", "\r"}

RECURSIVE trimStart(_)
trimStart(s) ==
  IF s # <<>> /\ IsWhiteSpace(Head(s)) THEN trimStart(Tail(s)) ELSE s

RECURSIVE trimEnd(_)
trimEnd(s) ==
  IF s # <<>> /\ IsWhiteSpace(s[Len(s)])
    THEN trimEnd(SubSeq(s, 1, Len(s) - 1))
    ELSE s

\* String.prototype.trim.
trim(s) == trimEnd(trimStart(s))

\* Variant: the query is trimmed before it is sent.
EffectiveQuery_Trimmed(scope, q) ==
  <<"[">> \o toUpperCase(scope) \o <<"]", " ">> \o trim(q)

\* The template literal `[${searchScope.toUpperCase()}] ${searchQuery}`.
EffectiveQuery(scope, q) == <<"[">> \o toUpperCase(scope) \o <<"]", " ">> \o q

\* ------------------------------------------------------------------ state

VARIABLES
  isExpanded,     \* useState(false)
  searchQuery,    \* useState('')
  searchScope,    \* useState('page')
  showScopeMenu,  \* useState(false)
  isLoading,      \* useState(false)
  isSummarized,   \* the prop: the widget is rendered only when TRUE
  listeners,      \* mousedown listeners on document: the isLoading each captured
  pending,        \* arguments of the onSearch invocations not yet settled
  opOutcome,      \* how the last settled onSearch invocation ended
  submitResult,   \* how the last settled handleSubmit promise ended
  lastSelected,   \* the scope of the last menu item clicked, <<>> before any
  evt,            \* the last event handled: [name, arg, changed, tick]
  mounted,        \* the component is mounted
  focusCalled,    \* the last step called inputRef.current.focus()
  beforeToggles,  \* the cells before each of the clicks on the expand button
                  \* that the latest events are, newest first, two at most
  hiddenSince     \* <<cells when isSummarized became false>> while it is false
                  \* and no invocation has settled since, <<>> otherwise

vars == <<isExpanded, searchQuery, searchScope, showScopeMenu, isLoading,
          isSummarized, listeners, pending, opOutcome, submitResult,
          lastSelected, evt, mounted, focusCalled, beforeToggles,
          hiddenSince>>

\* The five useState cells as one record.
Cur ==
  [isExpanded |-> isExpanded, searchQuery |-> searchQuery,
   searchScope |-> searchScope, showScopeMenu |-> showScopeMenu,
   isLoading |-> isLoading]

\* The record of an event: its name, its argument, whether handling it
\* changed a cell (st is the state it committed), and a bit that flips with
\* every event.
Event(name, arg, st) ==
  [name |-> name, arg |-> arg, changed |-> (st # Cur), tick |-> 1 - evt.tick]

Init ==
  /\ isExpanded = FALSE
  /\ searchQuery = <<>>
  /\ searchScope = Str_page
  /\ showScopeMenu = FALSE
  /\ isLoading = FALSE
  /\ isSummarized \in BOOLEAN
  /\ listeners = <<FALSE>>
  /\ pending = <<>>
  /\ opOutcome = "none"
  /\ submitResult = "none"
  /\ lastSelected = <<>>
  /\ evt = [name |-> "mount", arg |-> "none", changed |-> FALSE, tick |-> 0]
  /\ mounted = TRUE
  /\ focusCalled = FALSE
  /\ beforeToggles = <<>>
  /\ hiddenSince = IF isSummarized THEN <<>> ELSE <<Cur>>

\* Outcomes of one invocation of the injected operation onSearch.
Outcomes == {"ok"} \cup Errors

\* ------------------------------------------------------------- the effects

\* Variant: the cleanup removes nothing.
EffectCleanup_Leaks(ls) == ls

\* The cleanup of the effect: removeEventListener of its own listener.
EffectCleanup(ls) == SubSeq(ls, 1, Len(ls) - 1)

\* Variant: the effect has no dependencies and keeps its first listener.
ClickOutsideEffect_NoDeps(ls, old, new) == ls

\* useEffect(..., [isLoading]): when isLoading changed in a commit, the
\* cleanup removes the listener of the previous render and a new
\* handleClickOutside, closed over the new isLoading, is added.
ClickOutsideEffect(ls, old, new) ==
  IF new # old THEN Append(EffectCleanup(ls), new) ELSE ls

\* Variant: the effect focuses the input on every change of isExpanded.
FocusEffect_NoExpandedTest(old, new, rendered) == new # old /\ rendered

\* useEffect(..., [isExpanded]): TRUE when it calls inputRef.current.focus();
\* inputRef.current is set only while the widget is rendered.
FocusEffect(old, new, rendered) == new # old /\ new /\ rendered

\* The widget is in the DOM: mounted and not returning null.
Rendered == mounted /\ isSummarized

\* The setters are given the values of st.
SetCells(st) ==
  /\ isExpanded' = st.isExpanded
  /\ searchQuery' = st.searchQuery
  /\ searchScope' = st.searchScope
  /\ showScopeMenu' = st.showScopeMenu
  /\ isLoading' = st.isLoading

\* A commit of the state st: the cells take their new values and the
\* effects run.
Commit(st) ==
  /\ SetCells(st)
  /\ listeners' = ClickOutsideEffect(listeners, isLoading, st.isLoading)
  /\ focusCalled' = FocusEffect(isExpanded, st.isExpanded, Rendered)

\* ------------------------------------------------------------ the handlers

\* Variant: the listener does not look at isLoading.
handleClickOutside_NoLoadingGuard(captured, rendered, inside) ==
  rendered /\ ~inside

\* Variant: the listener does not look at the target.
handleClickOutside_NoContains(captured, rendered, inside) ==
  rendered /\ ~captured

\* Variant: the listener does not test searchContainerRef.current.
handleClickOutside_NoRefTest(captured, rendered, inside) ==
  ~inside /\ ~captured

\* The guard of handleClickOutside, closed over `captured` (the isLoading of
\* the render that registered it): searchContainerRef.current is set only
\* while the widget is rendered.
handleClickOutside(captured, rendered, inside) ==
  rendered /\ ~inside /\ ~captured

\* What a passing handleClickOutside sets.
Dismiss(st) == [st EXCEPT !.isExpanded = FALSE, !.showScopeMenu = FALSE]

\* Variant: the expand button only ever expands.
toggleExpand_OnlyExpands(st) ==
  IF ~st.isLoading
    THEN [st EXCEPT !.isExpanded = TRUE, !.showScopeMenu = FALSE]
    ELSE st

\* onClick of the expand button.
toggleExpand(st) ==
  IF ~st.isLoading
    THEN [st EXCEPT !.isExpanded = ~st.isExpanded, !.showScopeMenu = FALSE]
    ELSE st

\* Variant: the scope button does not look at isLoading.
toggleScopeMenu_NoLoadingGuard(st) ==
  [st EXCEPT !.showScopeMenu = ~st.showScopeMenu]

\* onClick of the scope button.
toggleScopeMenu(st) ==
  IF ~st.isLoading
    THEN [st EXCEPT !.showScopeMenu = ~st.showScopeMenu]
    ELSE st

\* Variant: clicking the scope already selected returns early.
selectScope_SameIsNoOp(st, scope) ==
  IF scope = st.searchScope
    THEN st
    ELSE [st EXCEPT !.searchScope = scope, !.showScopeMenu = FALSE]

\* onClick of a scope menu item.
selectScope(st, scope) ==
  [st EXCEPT !.searchScope = scope, !.showScopeMenu = FALSE]

\* onChange of the input.
onChange(st, value) == [st EXCEPT !.searchQuery = value]

\* Variant: the early return does not look at isLoading.
SubmitAccepted_NoLoadingGuard(st) == ~(trim(st.searchQuery) = <<>>)

\* Variant: the early return tests the query without trimming it.
SubmitAccepted_NoTrim(st) == ~(st.searchQuery = <<>> \/ st.isLoading)

\* handleSubmit's early return: TRUE when the submission goes ahead.
SubmitAccepted(st) == ~(trim(st.searchQuery) = <<>> \/ st.isLoading)

\* Variant: the accepted submission leaves the scope menu as it is.
BeforeAwait_KeepsMenu(st) == [st EXCEPT !.isLoading = TRUE]

\* handleSubmit up to the await.
BeforeAwait(st) == [st EXCEPT !.isLoading = TRUE, !.showScopeMenu = FALSE]

\* Variant: the block also puts the scope back to 'page'.
FinallyBlock_ResetsScope(st) ==
  [st EXCEPT !.isLoading = FALSE, !.searchQuery = <<>>, !.isExpanded = FALSE,
             !.searchScope = Str_page]

\* The finally block of handleSubmit.
FinallyBlock(st) ==
  [st EXCEPT !.isLoading = FALSE, !.searchQuery = <<>>, !.isExpanded = FALSE]

\* Variant: the block follows the await without a finally, so a rejection
\* skips it.
AfterAwait_NoFinally(st, outcome) ==
  IF outcome = "ok" THEN FinallyBlock(st) ELSE st

\* handleSubmit after the awaited onSearch settled with `outcome`:
\* try { await } finally { ... } runs the block on either outcome.
AfterAwait(st, outcome) == FinallyBlock(st)

\* Variant: a catch clause swallows the rejection.
HandlerResult_Catch(outcome) == "ok"

\* The result of the handleSubmit promise: there is no catch clause, so a
\* rejection of onSearch is the rejection of handleSubmit.
HandlerResult(outcome) == outcome

\* ------------------------------------------------------------- the actions

\* What an event other than a completion or a change of isSummarized leaves
\* alone.
Others(name) ==
  /\ beforeToggles' = IF name = "toggleExpand"
                         THEN SubSeq(<<Cur>> \o beforeToggles, 1,
                                     IF beforeToggles = <<>> THEN 1 ELSE 2)
                         ELSE <<>>
  /\ UNCHANGED <<isSummarized, mounted, hiddenSince>>

ToggleExpand ==
  /\ Rendered
  /\ Commit(toggleExpand(Cur))
  /\ evt' = Event("toggleExpand", "none", toggleExpand(Cur))
  /\ Others("toggleExpand")
  /\ UNCHANGED <<pending, opOutcome, submitResult, lastSelected>>

ToggleScopeMenu ==
  /\ Rendered
  /\ Commit(toggleScopeMenu(Cur))
  /\ evt' = Event("toggleScopeMenu", "none", toggleScopeMenu(Cur))
  /\ Others("toggleScopeMenu")
  /\ UNCHANGED <<pending, opOutcome, submitResult, lastSelected>>

\* The menu is rendered under showScopeMenu && !isLoading.
SelectScope ==
  /\ Rendered
  /\ showScopeMenu /\ ~isLoading
  /\ \E scope \in Scopes :
       /\ Commit(selectScope(Cur, scope))
       /\ lastSelected' = scope
       /\ evt' = Event("selectScope",
                        IF scope = searchScope THEN "same" ELSE "other",
                        selectScope(Cur, scope))
  /\ Others("selectScope")
  /\ UNCHANGED <<pending, opOutcome, submitResult>>

\* Variant: the input is not disabled while isLoading.
Change_NotDisabled ==
  /\ Rendered
  /\ \E value \in Strings :
       /\ Commit(onChange(Cur, value))
       /\ evt' = Event("change", "none", onChange(Cur, value))
  /\ Others("change")
  /\ UNCHANGED <<pending, opOutcome, submitResult, lastSelected>>

\* The input is disabled while isLoading.
Change ==
  /\ Rendered
  /\ ~isLoading
  /\ \E value \in Strings :
       /\ Commit(onChange(Cur, value))
       /\ evt' = Event("change", "none", onChange(Cur, value))
  /\ Others("change")
  /\ UNCHANGED <<pending, opOutcome, submitResult, lastSelected>>

\* onSubmit of the form.
Submit ==
  /\ Rendered
  /\ IF SubmitAccepted(Cur)
       THEN /\ Commit(BeforeAwait(Cur))
            /\ pending' = Append(pending, EffectiveQuery(searchScope, searchQuery))
            /\ evt' = Event("submit", "accepted", BeforeAwait(Cur))
       ELSE /\ Commit(Cur)
            /\ pending' = pending
            /\ evt' = Event("submit", "ignored", Cur)
  /\ Others("submit")
  /\ UNCHANGED <<opOutcome, submitResult, lastSelected>>

\* A mousedown anywhere in the document, dispatched to every registered
\* listener; a target inside the widget exists only while the widget is
\* rendered.
MouseDown ==
  /\ \E inside \in BOOLEAN :
       /\ inside => Rendered
       /\ LET hit == \E i \in DOMAIN listeners :
                       handleClickOutside(listeners[i], Rendered, inside)
              st == IF hit THEN Dismiss(Cur) ELSE Cur
          IN /\ Commit(st)
             /\ evt' = Event("mousedown",
                              IF inside THEN "inside" ELSE "outside", st)
  /\ Others("mousedown")
  /\ UNCHANGED <<pending, opOutcome, submitResult, lastSelected>>

\* The awaited onSearch settles. The setters of the finally block are called
\* whether or not the component is still mounted; the effects run only in a
\* mounted component.
Settle ==
  /\ pending # <<>>
  /\ \E outcome \in Outcomes :
       /\ IF mounted
            THEN Commit(AfterAwait(Cur, outcome))
            ELSE /\ SetCells(AfterAwait(Cur, outcome))
                 /\ focusCalled' = FALSE
                 /\ UNCHANGED listeners
       /\ opOutcome' = outcome
       /\ submitResult' = HandlerResult(outcome)
       /\ evt' = Event("settle", outcome, AfterAwait(Cur, outcome))
  /\ pending' = Tail(pending)
  /\ beforeToggles' = <<>>
  /\ hiddenSince' = <<>>
  /\ UNCHANGED <<isSummarized, mounted, lastSelected>>

\* The host changes the isSummarized prop.
SetSummarized ==
  /\ mounted
  /\ isSummarized' = ~isSummarized
  /\ Commit(Cur)
  /\ evt' = Event("isSummarized", "none", Cur)
  /\ beforeToggles' = <<>>
  /\ hiddenSince' = IF isSummarized THEN <<Cur>> ELSE <<>>
  /\ UNCHANGED <<mounted, pending, opOutcome, submitResult, lastSelected>>

\* The host unmounts the component: the cleanup of the effect runs.
Unmount ==
  /\ mounted
  /\ mounted' = FALSE
  /\ listeners' = EffectCleanup(listeners)
  /\ evt' = Event("unmount", "none", Cur)
  /\ beforeToggles' = <<>>
  /\ hiddenSince' = <<>>
  /\ focusCalled' = FALSE
  /\ UNCHANGED <<isExpanded, searchQuery, searchScope, showScopeMenu,
                 isLoading, isSummarized, pending, opOutcome, submitResult,
                 lastSelected>>

Next ==
  \/ ToggleExpand
  \/ ToggleScopeMenu
  \/ SelectScope
  \/ Change
  \/ Submit
  \/ MouseDown
  \/ Settle
  \/ SetSummarized
  \/ Unmount

Spec == Init /\ [][Next]_vars

\* Every invocation of the injected operation eventually settles.
FairSpec == Spec /\ WF_vars(Settle)

\* ------------------------------------------------------------- properties

\* The step just taken handled the event `name`.
Handled(name) == evt' # evt /\ evt'.name = name

\* The cells after the finally block, the scope apart.
CleanedUp ==
  /\ isLoading = FALSE
  /\ searchQuery = <<>>
  /\ isExpanded = FALSE
  /\ showScopeMenu = FALSE

\* C1: menu-loading exclusion: in every reachable state, isLoading implies
\* that the scope menu is closed.
C1_MenuLoadingExclusion == isLoading => ~showScopeMenu

\* A scope-menu toggle was attempted during a flight.
C1_Witness == isLoading /\ evt.name = "toggleScopeMenu"

\* C2: double-submit guard: at most one onSearch invocation is outstanding
\* at any moment, and a submit handled while isLoading changes no cell and
\* invokes nothing.
C2_DoubleSubmitGuard ==
  /\ [](Len(pending) <= 1)
  /\ [][Handled("submit") /\ isLoading =>
          /\ pending' = pending
          /\ Cur' = Cur]_vars

\* A second submit was handled during the flight of the first.
C2_Witness ==
  /\ evt.name = "submit" /\ evt.arg = "ignored"
  /\ isLoading /\ Len(pending) = 1

\* C3: cleanup on completion: whenever an onSearch invocation has just
\* settled, with either outcome, isLoading = FALSE, searchQuery = '',
\* isExpanded = FALSE and showScopeMenu = FALSE.
C3_CleanupOnCompletion == evt.name = "settle" => CleanedUp

\* A rejected invocation has just settled.
C3_Witness == evt.name = "settle" /\ evt.arg \in Errors /\ CleanedUp

C5_CollapsedImpliesMenuClosed == ~isExpanded => ~showScopeMenu

Tag_ALL == <<"A", "L", "L">>
Tag_DOMAIN == <<"D", "O", "M", "A", "I", "N">>
Tag_PAGE == <<"P", "A", "G", "E">>

\* The tag the claim expects: PAGE before any selection, then that of the
\* scope selected last.
ExpectedTag ==
  CASE lastSelected = <<>> -> Tag_PAGE
    [] lastSelected = Str_all -> Tag_ALL
    [] lastSelected = Str_domain -> Tag_DOMAIN
    [] lastSelected = Str_page -> Tag_PAGE

\* C6: effective query: every onSearch invocation receives "[" + TAG + "] "
\* + the raw searchQuery of the moment the submit was accepted, TAG being
\* PAGE before any selectScope and otherwise the upper-cased scope
\* selected last.
C6_EffectiveQuery ==
  [][Len(pending') > Len(pending) =>
       pending'[Len(pending')] =
         <<"[">> \o ExpectedTag \o <<"]", " ">> \o searchQuery]_vars

\* onSearch was invoked with "[ALL]  a": a selected scope and a query with
\* a leading blank.
C6_Witness ==
  pending = << <<"[", "A", "L", "L", "]", " ", " ", "a">> >>

\* The query is empty or holds blanks only.
BlankQuery == \A i \in DOMAIN searchQuery : searchQuery[i] = " "

\* C7: empty-query guard: a submit handled while searchQuery is empty or
\* blank starts no flight, invokes nothing and changes no cell.
C7_EmptyQueryGuard ==
  [][Handled("submit") /\ BlankQuery =>
       /\ isLoading' = FALSE
       /\ pending' = pending
       /\ Cur' = Cur]_vars

\* A submit was handled with a query of blanks on an expanded widget.
C7_Witness ==
  /\ evt.name = "submit"
  /\ searchQuery # <<>> /\ BlankQuery
  /\ isExpanded /\ ~isLoading

\* C8: failure propagation: when an invocation has just settled, the
\* handleSubmit promise ended as onSearch did (rejected with the same
\* failure, or fulfilled), and the cleanup is in place by then.
C8_FailurePropagation ==
  evt.name = "settle" =>
    /\ opOutcome = evt.arg
    /\ submitResult = opOutcome
    /\ (submitResult \in Errors => CleanedUp)

\* handleSubmit has just rejected with E2.
C8_Witness == evt.name = "settle" /\ submitResult = "E2" /\ CleanedUp

\* C9 as claimed: after a completed submission cycle all five cells hold
\* their mount values, the scope included.
C9_BaselineReset ==
  evt.name = "settle" => CleanedUp /\ searchScope = Str_page

\* C9 amended: the completion of a submission leaves isLoading = FALSE,
\* searchQuery = '', isExpanded = FALSE and showScopeMenu = FALSE, and does
\* not change searchScope.
C9_ResetKeepsScope ==
  [][Handled("settle") => CleanedUp' /\ searchScope' = searchScope]_vars

\* A submission under the scope 'all' has just completed.
C9_Witness == evt.name = "settle" /\ searchScope = Str_all /\ CleanedUp

\* C10 as claimed: an outside mousedown while ~isLoading collapses the
\* (mounted) widget and closes the menu, keeping query and scope; an inside
\* one changes nothing.
C10_OutsideDismissal ==
  [][Handled("mousedown") =>
       /\ (evt'.arg = "outside" /\ ~isLoading /\ mounted =>
             /\ isExpanded' = FALSE
             /\ showScopeMenu' = FALSE
             /\ UNCHANGED <<searchQuery, searchScope, isLoading>>)
       /\ (evt'.arg = "inside" => Cur' = Cur)]_vars

\* C10 amended: the same, for a widget that is rendered (mounted and
\* isSummarized).
C10_OutsideDismissalRendered ==
  [][Handled("mousedown") =>
       /\ (evt'.arg = "outside" /\ ~isLoading /\ Rendered =>
             /\ isExpanded' = FALSE
             /\ showScopeMenu' = FALSE
             /\ UNCHANGED <<searchQuery, searchScope, isLoading>>)
       /\ (evt'.arg = "inside" => Cur' = Cur)]_vars

\* An outside mousedown collapsed a rendered widget and the query "a"
\* stayed.
C10_Witness ==
  /\ evt.name = "mousedown" /\ evt.arg = "outside" /\ evt.changed
  /\ Rendered /\ ~isLoading /\ ~isExpanded
  /\ searchQuery = <<"a">>

\* C11: guaranteed release: if every invocation eventually settles, every
\* accepted submission is eventually followed by a state with
\* isLoading = FALSE and isExpanded = FALSE.
C11_GuaranteedRelease == (pending # <<>>) ~> (~isLoading /\ ~isExpanded)

\* A flight has ended with a fulfilled invocation and released the widget.
C11_Witness ==
  /\ evt.name = "settle" /\ evt.arg = "ok"
  /\ pending = <<>> /\ ~isLoading /\ ~isExpanded

\* C12: toggles ignored while loading: while isLoading, the expand button
\* and the scope button change no cell; otherwise the expand button flips
\* isExpanded, closes the menu and changes nothing else, and the scope
\* button flips showScopeMenu and changes nothing else.
C12_TogglesGated ==
  [][/\ (Handled("toggleExpand") =>
           IF isLoading
             THEN Cur' = Cur
             ELSE /\ isExpanded' = ~isExpanded
                  /\ showScopeMenu' = FALSE
                  /\ UNCHANGED <<searchQuery, searchScope, isLoading>>)
     /\ (Handled("toggleScopeMenu") =>
           IF isLoading
             THEN Cur' = Cur
             ELSE /\ showScopeMenu' = ~showScopeMenu
                  /\ UNCHANGED <<isExpanded, searchQuery, searchScope,
                                 isLoading>>)]_vars

\* The expand button was clicked during a flight.
C12_Witness == isLoading /\ evt.name = "toggleExpand" /\ isExpanded

\* C13: selection closes menu: a click on the menu item of scope X leaves
\* searchScope = X and showScopeMenu = FALSE, whatever the scope was
\* before, and leaves isExpanded, searchQuery and isLoading unchanged.
C13_SelectionClosesMenu ==
  [][Handled("selectScope") =>
       /\ searchScope' = lastSelected'
       /\ showScopeMenu' = FALSE
       /\ UNCHANGED <<isExpanded, searchQuery, isLoading>>]_vars

\* The scope already selected was selected again and the menu closed.
C13_Witness ==
  /\ evt.name = "selectScope" /\ evt.arg = "same"
  /\ searchScope = Str_domain /\ ~showScopeMenu

\* C15: submission only from an expanded widget: in every reachable state,
\* isLoading implies isExpanded.
C15_LoadingImpliesExpanded == isLoading => isExpanded

\* The tag of a scope, as a table.
TagOf(scope) ==
  CASE scope = Str_all -> Tag_ALL
    [] scope = Str_domain -> Tag_DOMAIN
    [] scope = Str_page -> Tag_PAGE

\* C16: in-flight query is frozen: while an invocation is outstanding no
\* step changes searchScope, no step but the completion changes
\* searchQuery, and the string sent is the one the current scope and query
\* give.
C16_InFlightFrozen ==
  /\ [](pending # <<>> =>
          pending[1] = <<"[">> \o TagOf(searchScope) \o <<"]", " ">>
                         \o searchQuery)
  /\ [][pending # <<>> =>
          /\ searchScope' = searchScope
          /\ (pending' # <<>> => searchQuery' = searchQuery)]_vars

\* A flight under the scope 'domain' during which the user clicked inside
\* the widget.
C16_Witness ==
  /\ pending # <<>> /\ isLoading /\ searchScope = Str_domain
  /\ evt.name = "mousedown" /\ evt.arg = "inside"

C14_IdempotentCollapse ==
  (Len(beforeToggles) = 2 /\ ~beforeToggles[2].isLoading) =>
    /\ isExpanded = beforeToggles[2].isExpanded
    /\ (~beforeToggles[2].isExpanded =>
          /\ ~isExpanded /\ ~showScopeMenu
          /\ searchQuery = beforeToggles[2].searchQuery
          /\ searchScope = beforeToggles[2].searchScope)

\* Two consecutive clicks on the expand button of a collapsed widget that
\* holds the query "a" under the scope 'all'.
C14_Witness ==
  /\ Len(beforeToggles) = 2
  /\ ~beforeToggles[2].isExpanded /\ ~beforeToggles[2].isLoading
  /\ beforeToggles[1].isExpanded
  /\ searchQuery = <<"a">> /\ searchScope = Str_all

\* C18: listener lifecycle: exactly one mousedown listener is registered
\* while the component is mounted and none after it is unmounted.
C18_ListenerLifecycle == Len(listeners) = IF mounted THEN 1 ELSE 0

\* The component was unmounted after a submission cycle.
C18_Witness == ~mounted /\ listeners = <<>> /\ opOutcome # "none"

\* C19: visibility gate preserves state: while isSummarized is false no
\* user event changes a cell; as long as no invocation has settled since
\* isSummarized became false the cells are those of that moment, and they
\* still are when isSummarized becomes true again.
C19_VisibilityGate ==
  /\ [](hiddenSince # <<>> => ~isSummarized /\ Cur = hiddenSince[1])
  /\ [][/\ (/\ ~isSummarized
            /\ evt' # evt
            /\ evt'.name \notin {"settle", "isSummarized", "unmount"}
            => Cur' = Cur)
        /\ (~isSummarized /\ isSummarized' /\ hiddenSince # <<>> =>
              /\ isExpanded' = hiddenSince[1].isExpanded
              /\ searchQuery' = hiddenSince[1].searchQuery
              /\ searchScope' = hiddenSince[1].searchScope
              /\ showScopeMenu' = hiddenSince[1].showScopeMenu)]_vars

\* A mousedown arrived while the widget was hidden with the menu open.
C19_Witness ==
  /\ hiddenSince # <<>> /\ mounted
  /\ isExpanded /\ showScopeMenu /\ ~isLoading
  /\ evt.name = "mousedown"

\* C20: focus on expand: a step calls inputRef.current.focus() exactly when
\* it changes isExpanded from false to true; the mount does not.
C20_FocusOnExpand ==
  /\ [](evt.name = "mount" => ~focusCalled)
  /\ [][evt' # evt => (focusCalled' <=> (~isExpanded /\ isExpanded'))]_vars

\* The expand button has just expanded the widget and the input was focused.
C20_Witness == focusCalled /\ isExpanded /\ evt.name = "toggleExpand"

====
